---- MODULE Spec2Model ----
(***************************************************************************)
(* Growth projection engine of SemRush_Auto_Analyzer                       *)
(* (src/scripts/growth_projector.py) with the benchmark file it consumes   *)
(* (src/scripts/paid_media_benchmarks.py).                                 *)
(*                                                                         *)
(* Numbers.  The Python code computes on floats and rounds with round().   *)
(* The model computes on exact rationals <<n, d>> (d > 0, lowest terms)    *)
(* and rounds half-to-even, which is what round() does on the value it is  *)
(* given.  Inputs and record fields are integers in the unit of their      *)
(* rounding:                                                               *)
(*   money (ad_spend, aov, cpc, revenues, cac)      cents                  *)
(*   rates (conversion rates, roas)                  hundredths            *)
(*   organic_pct, paid/organic_traffic_pct           tenths of a percent   *)
(*   order counts                                    tenths of an order    *)
(*   traffic counts, month, months                   units                 *)
(* An Optional[float] argument is a set: {} is None, {x} is the value x.   *)
(***************************************************************************)
EXTENDS Integers, Sequences, FiniteSets, TLC

VARIABLES
    request,          \* what this run was started with: mode, arguments, config
    benchmark_file,   \* data/paid_media/paid_media_benchmarks.json on disk
    projector,        \* the GrowthProjector instance (self.benchmarks, self.config)
    last,             \* the latest generate_projections invocation
    prev,             \* the invocation before it, kept when it had the same arguments
    artifacts,        \* files under output/projections: path (kind, stamp) -> content
    outcome,          \* what the latest run handler did (raised, written, returned)
    clock,            \* datetime.now()
    monthly_call,     \* the latest direct calculate_monthly_projection call
    frames,           \* generate_projections invocations in progress, by caller
    master            \* one invocation of master.main: flags, pipelines run, results

vars == <<request, benchmark_file, projector, last, prev, artifacts, outcome, clock,
          monthly_call, frames, master>>

(***************************************************************************)
(* Bounds of the model                                                     *)
(***************************************************************************)
MaxMonth == 14      \* month indices 1..MaxMonth are projected one by one
MaxClock == 1       \* clock readings 0..MaxClock
MaxSaveClock == 2   \* clock readings 0..MaxSaveClock where only saves are made

(***************************************************************************)
(* Exact rational arithmetic                                               *)
(***************************************************************************)
Abs(x) == IF x < 0 THEN -x ELSE x

RECURSIVE GCD(_, _)
GCD(a, b) == IF b = 0 THEN a ELSE GCD(b, a % b)

\* n/d in lowest terms with a positive denominator (d # 0)
Rat(n, d) ==
    LET g == GCD(Abs(n), Abs(d))
        s == IF d < 0 THEN -1 ELSE 1
    IN  <<(s * n) \div g, (s * d) \div g>>

RInt(k) == <<k, 1>>
\* sums over the least common denominator
RAdd(x, y) ==
    LET g == GCD(x[2], y[2])
    IN  Rat(x[1] * (y[2] \div g) + y[1] * (x[2] \div g), (x[2] \div g) * y[2])
RSub(x, y) == RAdd(x, <<-y[1], y[2]>>)
\* cross-reduce before multiplying so that the products stay small
RMul(x, y) ==
    LET a == Rat(x[1], y[2])
        b == Rat(y[1], x[2])
    IN  <<a[1] * b[1], a[2] * b[2]>>
RDiv(x, y) == RMul(x, Rat(y[2], y[1]))
RLt(x, y) == RSub(x, y)[1] < 0
RIsZero(x) == x[1] = 0
RPos(x) == x[1] > 0

\* nearest integer to n/d (d > 0), ties to the even integer: Python's round()
RoundHalfEven(n, d) ==
    LET q == n \div d
        r == n % d
    IN  IF 2 * r < d THEN q
        ELSE IF 2 * r > d THEN q + 1
        ELSE IF q % 2 = 0 THEN q ELSE q + 1

Pow10(k) == IF k = 0 THEN 1 ELSE IF k = 1 THEN 10 ELSE 100

\* variant: the digits after the last kept one are cut off (rounding down)
RoundDown(x, digits) ==
    LET s == Rat(Pow10(digits), x[2])
    IN  (x[1] * s[1]) \div s[2]

\* round(x, digits), as an integer count of 10^-digits
Round(x, digits) ==
    LET s == Rat(Pow10(digits), x[2])
    IN  RoundHalfEven(x[1] * s[1], s[2])

\* Optional values
None == {}
Some(x) == {x}
Val(o) == CHOOSE x \in o : TRUE

Cents(c) == Rat(c, 100)         \* a money amount given in cents, in dollars
Hundredths(h) == Rat(h, 100)    \* a rate given in hundredths

(***************************************************************************)
(* DEFAULT_BENCHMARKS['luxury_ecommerce']                                  *)
(***************************************************************************)
\* avg_cpc: 2.50
DEFAULT_avg_cpc == 250
\* conversion_rate_month_1_3: 1.5 percent
DEFAULT_conversion_rate_month_1_3 == 150
\* organic_growth_curve, percent of total traffic, months 1..12
organic_growth_curve == <<5, 7, 10, 12, 15, 18, 22, 25, 28, 30, 32, 35>>
\* cpc_optimization_curve, in hundredths, months 1..12
cpc_optimization_curve == <<100, 95, 90, 85, 82, 80, 78, 76, 75, 74, 73, 72>>

\* variant: the month key misses the table, every lookup falls back to 0.75
cpc_multiplier_key_miss(month) == Hundredths(75)

\* variant: beyond the table the downward trend goes on, 0.01 a month
cpc_multiplier_trend(month) ==
    IF month \in DOMAIN cpc_optimization_curve
    THEN Hundredths(cpc_optimization_curve[month])
    ELSE Hundredths(84 - month)

\* defaults['cpc_optimization_curve'].get(month, 0.75)
cpc_multiplier(month) ==
    IF month \in DOMAIN cpc_optimization_curve
    THEN Hundredths(cpc_optimization_curve[month])
    ELSE Hundredths(75)

\* variant: the tiers start one month early (month < 3, month < 6)
effective_cr_early(month, base_conversion_rate) ==
    IF month < 3 THEN base_conversion_rate
    ELSE IF month < 6 THEN RMul(base_conversion_rate, Rat(3, 2))
    ELSE RMul(base_conversion_rate, RInt(2))

\* the tiered conversion rate
effective_cr(month, base_conversion_rate) ==
    IF month <= 3 THEN base_conversion_rate
    ELSE IF month <= 6 THEN RMul(base_conversion_rate, Rat(3, 2))
    ELSE RMul(base_conversion_rate, RInt(2))

\* variant: the fallback beyond the table is 30
organic_pct_low_fallback(month) ==
    IF month \in DOMAIN organic_growth_curve
    THEN Rat(organic_growth_curve[month], 100)
    ELSE Rat(30, 100)

\* defaults['organic_growth_curve'].get(month, 35) / 100
organic_pct(month) ==
    IF month \in DOMAIN organic_growth_curve
    THEN Rat(organic_growth_curve[month], 100)
    ELSE Rat(35, 100)

\* variant: the organic share is added on top of the paid clicks
total_traffic_markup(paid_clicks, o_pct) ==
    RMul(paid_clicks, RAdd(RInt(1), o_pct))

\* variant: with a full organic share the fallback is zero traffic
total_traffic_no_paid(paid_clicks, o_pct) ==
    IF RLt(o_pct, RInt(1))
    THEN RDiv(paid_clicks, RSub(RInt(1), o_pct))
    ELSE RInt(0)

\* paid_clicks / (1 - organic_pct) if organic_pct < 1 else paid_clicks
total_traffic(paid_clicks, o_pct) ==
    IF RLt(o_pct, RInt(1))
    THEN RDiv(paid_clicks, RSub(RInt(1), o_pct))
    ELSE paid_clicks

\* variant: the return net of the spend, (revenue - spend) / spend
roas_net(total_revenue, monthly_ad_spend) ==
    IF RPos(monthly_ad_spend)
    THEN RDiv(RSub(total_revenue, monthly_ad_spend), monthly_ad_spend)
    ELSE RInt(0)

\* total_revenue / monthly_ad_spend if monthly_ad_spend > 0 else 0
roas(total_revenue, monthly_ad_spend) ==
    IF RPos(monthly_ad_spend) THEN RDiv(total_revenue, monthly_ad_spend)
    ELSE RInt(0)

\* variant: the guard tests the order count as it is stored in the record
cac_guard_rounded(monthly_ad_spend, total_orders) ==
    IF Round(total_orders, 1) > 0
    THEN Round(RDiv(monthly_ad_spend, total_orders), 2)
    ELSE 0

\* round(monthly_ad_spend / total_orders, 2) if total_orders > 0 else 0
cac(monthly_ad_spend, total_orders) ==
    IF RPos(total_orders) THEN Round(RDiv(monthly_ad_spend, total_orders), 2)
    ELSE 0

\* calculate_monthly_projection raises ZeroDivisionError at
\* paid_clicks = monthly_ad_spend / effective_cpc when effective_cpc is 0
monthly_raises(month, base_cpc) ==
    RIsZero(RMul(Cents(base_cpc), cpc_multiplier(month)))

\* the unrounded quantities of calculate_monthly_projection (all rationals)
monthly_unrounded(month, monthly_ad_spend, aov, base_cpc, base_conversion_rate) ==
    LET spend == Cents(monthly_ad_spend)
        e_cpc == RMul(Cents(base_cpc), cpc_multiplier(month))
        e_cr == effective_cr(month, Hundredths(base_conversion_rate))
        paid_clicks == RDiv(spend, e_cpc)
        paid_orders == RMul(paid_clicks, RDiv(e_cr, RInt(100)))
        paid_revenue == RMul(paid_orders, Cents(aov))
        o_pct == organic_pct(month)
        t_traffic == total_traffic(paid_clicks, o_pct)
        organic_traffic == RMul(t_traffic, o_pct)
        organic_cr == RMul(e_cr, Rat(13, 10))
        organic_orders == RMul(organic_traffic, RDiv(organic_cr, RInt(100)))
        organic_revenue == RMul(organic_orders, Cents(aov))
        t_orders == RAdd(paid_orders, organic_orders)
        t_revenue == RAdd(paid_revenue, organic_revenue)
    IN  [monthly_ad_spend |-> spend,
         effective_cpc |-> e_cpc,
         effective_cr |-> e_cr,
         paid_clicks |-> paid_clicks,
         paid_orders |-> paid_orders,
         paid_revenue |-> paid_revenue,
         organic_pct |-> o_pct,
         organic_traffic |-> organic_traffic,
         organic_orders |-> organic_orders,
         organic_revenue |-> organic_revenue,
         total_traffic |-> t_traffic,
         total_orders |-> t_orders,
         total_revenue |-> t_revenue,
         roas |-> roas(t_revenue, spend)]

\* the dict calculate_monthly_projection returns, from its unrounded values
rounded_record(month, u) ==
    [month |-> month,
     ad_spend |-> Round(u.monthly_ad_spend, 2),
     effective_cpc |-> Round(u.effective_cpc, 2),
     effective_cr |-> Round(u.effective_cr, 2),
     paid_traffic |-> Round(u.paid_clicks, 0),
     paid_orders |-> Round(u.paid_orders, 1),
     paid_revenue |-> Round(u.paid_revenue, 2),
     organic_pct |-> Round(RMul(u.organic_pct, RInt(100)), 1),
     organic_traffic |-> Round(u.organic_traffic, 0),
     organic_orders |-> Round(u.organic_orders, 1),
     organic_revenue |-> Round(u.organic_revenue, 2),
     total_traffic |-> Round(u.total_traffic, 0),
     total_orders |-> Round(u.total_orders, 1),
     total_revenue |-> Round(u.total_revenue, 2),
     roas |-> Round(u.roas, 2),
     cac |-> cac(u.monthly_ad_spend, u.total_orders)]

\* calculate_monthly_projection: the unrounded values are computed once,
\* then rounded into the record
calculate_monthly_projection(month, monthly_ad_spend, aov, base_cpc, base_conversion_rate) ==
    CHOOSE r \in {rounded_record(month, u) :
                    u \in {monthly_unrounded(month, monthly_ad_spend, aov,
                                             base_cpc, base_conversion_rate)}} :
        TRUE

(***************************************************************************)
(* Benchmark provider: the benchmark file and GrowthProjector._load_benchmarks *)
(***************************************************************************)
\* 'industry_averages' as built into the projector
DEFAULT_industry_averages ==
    [avg_cpc |-> Some(DEFAULT_avg_cpc),
     conversion_rate_month_1_3 |-> Some(DEFAULT_conversion_rate_month_1_3)]

\* what sum(all_cpcs) / len(all_cpcs) if all_cpcs else None can be in the
\* paid media step: None, or a measured average CPC (here 2.00, or 0.00 when
\* every collected CPC reads 0)
MeasuredAverages == {None, Some(0), Some(200)}

\* 'industry_averages' as PaidMediaBenchmarks.calculate_industry_averages
\* builds it from the collected CPCs: avg_cpc is None when none was collected
calculate_industry_averages(all_cpcs_avg) ==
    [avg_cpc |-> all_cpcs_avg, conversion_rate_month_1_3 |-> None]

\* contents of a parsable benchmark file (the json.load result)
BenchmarksWith(industry_averages) == [industry_averages |-> industry_averages]

FileAbsent == [exists |-> FALSE, parsable |-> FALSE,
               content |-> BenchmarksWith(None)]
FileUnparsable == [exists |-> TRUE, parsable |-> FALSE,
                   content |-> BenchmarksWith(None)]
FileWith(content) == [exists |-> TRUE, parsable |-> TRUE, content |-> content]
\* a parsable file that has no 'industry_averages' record
FileNoAverages == FileWith(BenchmarksWith(None))

\* a parsable file whose 'industry_averages' carries an avg_cpc (2.00) and a
\* conversion_rate_month_1_3 (1.75) of its own
FileWithRate ==
    FileWith(BenchmarksWith(Some([avg_cpc |-> Some(200),
                                  conversion_rate_month_1_3 |-> Some(175)])))

\* PaidMediaBenchmarks.save_benchmarks: json.dump(self.benchmarks)
save_benchmarks(all_cpcs_avg) ==
    FileWith(BenchmarksWith(Some(calculate_industry_averages(all_cpcs_avg))))

\* GrowthProjector._load_benchmarks: the dict it returns, or the exception
\* json.load raises on unparsable content
load_benchmarks(file) ==
    IF file.exists
    THEN IF file.parsable
         THEN [raised |-> "none", benchmarks |-> file.content,
               warned |-> FALSE]
         ELSE [raised |-> "JSONDecodeError",
               benchmarks |-> BenchmarksWith(None), warned |-> FALSE]
    ELSE [raised |-> "none",
          benchmarks |-> BenchmarksWith(Some(DEFAULT_industry_averages)),
          warned |-> TRUE]

\* self.benchmarks.get('industry_averages', {}).get('avg_cpc')
benchmark_avg_cpc(benchmarks) ==
    IF benchmarks.industry_averages = None THEN None
    ELSE Val(benchmarks.industry_averages).avg_cpc

(***************************************************************************)
(* GrowthProjector.generate_projections                                    *)
(***************************************************************************)
Args(spend, aov, cpc, cr, months) ==
    [monthly_ad_spend |-> spend, aov |-> aov, cpc |-> cpc,
     conversion_rate |-> cr, months |-> months]

\* variant: the `or` fallback is missing, a null avg_cpc is taken as it is
\* and counts as a CPC of zero
base_cpc_no_fallback(benchmarks, cpc) ==
    IF cpc # None THEN Val(cpc)
    ELSE IF benchmarks.industry_averages = None THEN DEFAULT_avg_cpc
    ELSE IF benchmark_avg_cpc(benchmarks) # None
         THEN Val(benchmark_avg_cpc(benchmarks))
         ELSE 0

\* cpc argument, else the loaded benchmark's avg_cpc, else the built-in one
base_cpc(benchmarks, cpc) ==
    IF cpc # None THEN Val(cpc)
    ELSE IF benchmark_avg_cpc(benchmarks) # None
         THEN Val(benchmark_avg_cpc(benchmarks))
         ELSE DEFAULT_avg_cpc

\* conversion_rate argument, else the built-in conversion_rate_month_1_3
base_conversion_rate(benchmarks, conversion_rate) ==
    IF conversion_rate # None THEN Val(conversion_rate)
    ELSE DEFAULT_conversion_rate_month_1_3

RECURSIVE SumField(_, _, _)
\* sum(m[field] for m in monthly[:n])
SumField(monthly, n, field) ==
    IF n <= 0 THEN 0
    ELSE SumField(monthly, n - 1, field) + monthly[n][field]

Min(a, b) == IF a < b THEN a ELSE b

\* round(revenue / spend, 2) if spend > 0 else 0, on the summed record fields
summary_roas(revenue, spend) ==
    IF spend > 0 THEN Round(Rat(revenue, spend), 2) ELSE 0

\* round(total_spend / total_orders, 2) if total_orders > 0 else 0
\* (spend in cents, orders in tenths)
summary_avg_cac(spend, orders) ==
    IF orders > 0 THEN Round(Rat(spend, 10 * orders), 2) ELSE 0

\* projections['summary'], for a non-empty monthly list
summary(monthly) ==
    LET n == Len(monthly)
        total_spend == SumField(monthly, n, "ad_spend")
        total_revenue == SumField(monthly, n, "total_revenue")
        total_orders == SumField(monthly, n, "total_orders")
        m3_spend == SumField(monthly, Min(3, n), "ad_spend")
        m3_revenue == SumField(monthly, Min(3, n), "total_revenue")
        m3_orders == SumField(monthly, Min(3, n), "total_orders")
        m3_organic_pct == IF n >= 3 THEN monthly[3].organic_pct ELSE 0
        m6_organic_pct == IF n >= 6 THEN monthly[6].organic_pct
                          ELSE monthly[n].organic_pct
    IN  [m3 |-> [total_spend |-> m3_spend,
                 total_revenue |-> m3_revenue,
                 total_orders |-> m3_orders,
                 roas |-> summary_roas(m3_revenue, m3_spend),
                 organic_traffic_pct |-> m3_organic_pct,
                 paid_traffic_pct |-> 1000 - m3_organic_pct],
         m6 |-> [total_spend |-> total_spend,
                 total_revenue |-> total_revenue,
                 total_orders |-> total_orders,
                 roas |-> summary_roas(total_revenue, total_spend),
                 organic_traffic_pct |-> m6_organic_pct,
                 paid_traffic_pct |-> 1000 - m6_organic_pct],
         avg_cac |-> summary_avg_cac(total_spend, total_orders)]

\* the exception generate_projections raises, "none" when it returns:
\* ZeroDivisionError from the first month computed with a zero CPC,
\* IndexError from monthly[-1] on the empty list when months < 1
generate_raises(benchmarks, args) ==
    IF args.months >= 1 /\ monthly_raises(1, base_cpc(benchmarks, args.cpc))
    THEN "ZeroDivisionError"
    ELSE IF args.months < 1 THEN "IndexError"
    ELSE "none"

RECURSIVE monthly_projections_from_zero(_, _, _, _, _)
\* variant: the loop runs over range(months), months 0 .. months - 1
monthly_projections_from_zero(months, monthly_ad_spend, aov, cpc, cr) ==
    IF months < 1 THEN <<>>
    ELSE Append(monthly_projections_from_zero(months - 1, monthly_ad_spend,
                                              aov, cpc, cr),
                calculate_monthly_projection(months - 1, monthly_ad_spend,
                                             aov, cpc, cr))

RECURSIVE monthly_projections(_, _, _, _, _)
\* the list the loop `for month in range(1, months + 1)` appends to
monthly_projections(months, monthly_ad_spend, aov, cpc, cr) ==
    IF months < 1 THEN <<>>
    ELSE Append(monthly_projections(months - 1, monthly_ad_spend, aov, cpc, cr),
                calculate_monthly_projection(months, monthly_ad_spend, aov,
                                             cpc, cr))

\* variant: the inputs block carries the generation time as well
report_of_dated_inputs(args, cpc, cr, monthly, now) ==
    [inputs |-> [monthly_ad_spend |-> args.monthly_ad_spend,
                 aov |-> args.aov,
                 base_cpc |-> cpc,
                 base_conversion_rate |-> cr,
                 months |-> args.months,
                 generated_at |-> now],
     monthly |-> monthly,
     summary |-> summary(monthly),
     generated_at |-> now]

\* the projections dict, once the monthly list is filled
report_of(args, cpc, cr, monthly, now) ==
    [inputs |-> [monthly_ad_spend |-> args.monthly_ad_spend,
                 aov |-> args.aov,
                 base_cpc |-> cpc,
                 base_conversion_rate |-> cr,
                 months |-> args.months],
     monthly |-> monthly,
     summary |-> summary(monthly),
     generated_at |-> now]

\* the projections dict generate_projections returns
projections(benchmarks, args, now) ==
    LET cpc == base_cpc(benchmarks, args.cpc)
        cr == base_conversion_rate(benchmarks, args.conversion_rate)
    IN  CHOOSE p \in {report_of(args, cpc, cr, monthly, now) :
                        monthly \in {monthly_projections(
                                        args.months, args.monthly_ad_spend,
                                        args.aov, cpc, cr)}} : TRUE

\* one invocation of generate_projections: what it raised, what it returned
generate_projections(benchmarks, args, now) ==
    LET raised == generate_raises(benchmarks, args)
    IN  [args |-> args,
         benchmarks |-> benchmarks,
         raised |-> raised,
         report |-> IF raised = "none"
                    THEN Some(projections(benchmarks, args, now))
                    ELSE None]

(***************************************************************************)
(* GrowthProjector.save_projections                                        *)
(***************************************************************************)
\* the three files of one save, in the order they are written
ArtifactKinds == <<"json", "csv", "txt">>

\* the clock is read in half seconds
TicksPerSecond == 2

\* datetime.now().strftime('%Y%m%d_%H%M%S'): the time cut to the second
timestamp(now) == now \div TicksPerSecond

\* the files save_projections has written when `written` of its three
\* open/write steps succeeded; every path carries the timestamp of the
\* save, the content is that of the report
saved_files(report, stamp, written) ==
    {[kind |-> ArtifactKinds[k], stamp |-> stamp, inputs |-> report.inputs,
      generated_at |-> report.generated_at] : k \in 1..written}

\* the path of a file: its kind and the timestamp in its name
PathOf(f) == <<f.kind, f.stamp>>

\* the files that were at the paths of the new ones: open(path, 'w')
\* truncates them
replaced_files(files, new) ==
    {f \in files : \E g \in new : PathOf(g) = PathOf(f)}

\* a write replaces the file that was at the same path
write_files(files, new) ==
    {f \in files : \A g \in new : ~(g.kind = f.kind /\ g.stamp = f.stamp)}
        \cup new

(***************************************************************************)
(* Inputs of a run                                                         *)
(***************************************************************************)
\* {ad_spend=5000, aov=65, cpc=2.50, conversion_rate=1.5, months=3}
ArgsEndToEnd == Args(500000, 6500, Some(250), Some(150), 3)
\* {ad_spend=-1, aov=65, months=3}
ArgsNegativeSpend == Args(-100, 6500, None, None, 3)
ArgsZeroAov == Args(500000, 0, None, None, 3)
ArgsNoMonths == Args(500000, 6500, None, None, 0)
\* valid, CPC and conversion rate left to the benchmarks, default horizon
ArgsBenchmarked == Args(500000, 6500, None, None, 6)
\* --spend 0: valid for the projection, falsy for `args.spend and args.aov`
ArgsZeroSpend == Args(0, 6500, None, None, 3)

\* what a projection input must satisfy
ValidInput(args) ==
    /\ args.monthly_ad_spend >= 0
    /\ args.aov > 0
    /\ args.months >= 1

Request(mode, args, config) == [mode |-> mode, args |-> args, config |-> config]

\* the runs of main(): interactive answers (that parse, or not), values on
\* the command line, or nothing but the config file's 'projections' section
\* (None: the section is missing)
MainRequests ==
    {Request("interactive", a, None) :
        a \in {ArgsEndToEnd, ArgsNegativeSpend}}
    \cup {Request("unparsable", ArgsNoMonths, None)}
    \cup {Request("cli", a, Some(ArgsBenchmarked)) :
            a \in {ArgsEndToEnd, ArgsNegativeSpend, ArgsZeroAov, ArgsNoMonths,
                   ArgsBenchmarked, ArgsZeroSpend}}
    \cup {Request("config", ArgsNoMonths, c) :
            c \in {None, Some(ArgsBenchmarked), Some(ArgsNegativeSpend)}}

(***************************************************************************)
(* State shared by the specifications                                      *)
(***************************************************************************)
NotConstructed ==
    [constructed |-> FALSE, benchmarks |-> BenchmarksWith(None),
     config |-> None]

\* the threads that may call generate_projections on one projector
Callers == {1, 2}

\* the frame of a caller that is not inside generate_projections: pc is the
\* position in the function, the other fields are its locals
NoFrame ==
    [pc |-> "idle", args |-> None, cpc |-> 0, conversion_rate |-> 0,
     month |-> 0, monthly |-> <<>>, generated_at |-> 0, raised |-> "none",
     report |-> None]

NoFrames == [c \in Callers |-> NoFrame]

\* master.main before argparse has run
NoMaster ==
    [pc |-> "start", flags |-> {}, mode |-> "none", pending |-> <<>>,
     results |-> <<>>, returned |-> None]

\* nothing has run yet
Idle ==
    /\ projector = NotConstructed
    /\ last = None
    /\ prev = None
    /\ artifacts = {}
    /\ outcome = None
    /\ clock = 0
    /\ frames = NoFrames
    /\ master = NoMaster

Outcome(handler, raised, written, returned) ==
    [handler |-> handler, raised |-> raised, written |-> written,
     returned |-> returned]

\* the previous invocation, when the new one repeats its arguments
Earlier(inv) == {p \in last : p.args = inv.args}

\* the environment: time passes
Tick ==
    /\ clock < MaxClock
    /\ clock' = clock + 1
    /\ UNCHANGED <<request, benchmark_file, projector, last, prev, artifacts,
                   outcome, monthly_call, frames, master>>

(***************************************************************************)
(* Spec: the runs of the projector program, main() of growth_projector.py  *)
(***************************************************************************)
Init ==
    /\ Idle
    /\ request \in MainRequests
    /\ benchmark_file \in {FileAbsent, FileUnparsable, FileNoAverages}
    /\ monthly_call = None

\* PaidMediaBenchmarks.run reaching calculate_industry_averages and
\* save_benchmarks: the benchmark file is (re)written.  The benchmark step
\* comes before the projector (step 1 and step 4 of the pipelines).
SaveBenchmarks ==
    /\ ~projector.constructed
    /\ outcome = None
    /\ \E all_cpcs_avg \in MeasuredAverages :
          benchmark_file' = save_benchmarks(all_cpcs_avg)
    /\ benchmark_file' # benchmark_file
    /\ UNCHANGED <<request, projector, last, prev, artifacts, outcome, clock,
                   monthly_call, frames, master>>

\* GrowthProjector.__init__: loads the config and the benchmarks, or fails
\* with the exception _load_benchmarks raises.  A behaviour follows the runs
\* of one entry point: main() of growth_projector.py (Construct, then one of
\* its three run paths), or master.run_growth_projections.
Construct ==
    /\ ~projector.constructed
    /\ \A o \in outcome : o.handler # "run_growth_projections"
    /\ LET loaded == load_benchmarks(benchmark_file)
       IN  /\ projector' = IF loaded.raised = "none"
                           THEN [constructed |-> TRUE,
                                 benchmarks |-> loaded.benchmarks,
                                 config |-> request.config]
                           ELSE NotConstructed
           /\ outcome' = Some(Outcome("__init__", loaded.raised, {},
                                      loaded.raised = "none"))
    /\ last' = None
    /\ prev' = None
    /\ UNCHANGED <<request, benchmark_file, artifacts, clock, monthly_call,
                   frames, master>>

\* generate_projections, print_projection_table, save_projections in a row,
\* as run_from_config, run_interactive and main do once they have their
\* inputs.  `written` of the three files get written; with fewer than three
\* the failing open/write raises OSError out of the handler.
GenerateAndSave(handler, args) ==
    \E inv \in {generate_projections(projector.benchmarks, args, clock)} :
        /\ last' = Some(inv)
        /\ prev' = Earlier(inv)
        /\ IF inv.raised # "none"
           THEN /\ outcome' = Some(Outcome(handler, inv.raised, {}, FALSE))
                /\ UNCHANGED artifacts
           ELSE \E written \in 0..3 :
                   LET new == saved_files(Val(inv.report), timestamp(clock),
                                          written)
                   IN  /\ artifacts' = write_files(artifacts, new)
                       /\ outcome' = Some(Outcome(handler,
                                          IF written < 3 THEN "OSError"
                                          ELSE "none",
                                          new, written = 3))

\* GrowthProjector.run_from_config, reached by main() when --spend and
\* --aov are not both given and truthy
RunFromConfig ==
    /\ projector.constructed
    /\ \/ request.mode = "config"
       \/ /\ request.mode = "cli"
          /\ ~(request.args.monthly_ad_spend # 0 /\ request.args.aov # 0)
    /\ IF projector.config = None
       THEN /\ outcome' = Some(Outcome("run_from_config", "none", {}, FALSE))
            /\ UNCHANGED <<last, prev, artifacts>>
       ELSE GenerateAndSave("run_from_config", Val(projector.config))
    /\ projector' = NotConstructed
    /\ UNCHANGED <<request, benchmark_file, clock, monthly_call, frames, master>>

\* GrowthProjector.run_interactive: the answers parse, or a float()/int()
\* conversion raises ValueError, which is reported and ends the session
RunInteractive ==
    /\ projector.constructed
    /\ request.mode \in {"interactive", "unparsable"}
    /\ IF request.mode = "unparsable"
       THEN /\ outcome' = Some(Outcome("run_interactive", "none", {}, FALSE))
            /\ UNCHANGED <<last, prev, artifacts>>
       ELSE GenerateAndSave("run_interactive", request.args)
    /\ projector' = NotConstructed
    /\ UNCHANGED <<request, benchmark_file, clock, monthly_call, frames, master>>

\* main() with --spend and --aov both truthy: the CLI values are projected
RunCli ==
    /\ projector.constructed
    /\ request.mode = "cli"
    /\ request.args.monthly_ad_spend # 0 /\ request.args.aov # 0
    /\ GenerateAndSave("main", request.args)
    /\ projector' = NotConstructed
    /\ UNCHANGED <<request, benchmark_file, clock, monthly_call, frames, master>>

\* the body of master.run_growth_projections once it has its inputs, inside
\* its try: whatever generate_projections or save_projections raises is
\* caught, printed, and turned into the result False
GenerateAndSaveCaught(benchmarks, args) ==
    \E inv \in {generate_projections(benchmarks, args, clock)} :
        /\ last' = Some(inv)
        /\ prev' = Earlier(inv)
        /\ IF inv.raised # "none"
           THEN /\ outcome' = Some(Outcome("run_growth_projections", "none",
                                           {}, FALSE))
                /\ UNCHANGED artifacts
           ELSE \E written \in 0..3 :
                   LET new == saved_files(Val(inv.report), timestamp(clock),
                                          written)
                   IN  /\ artifacts' = write_files(artifacts, new)
                       /\ outcome' = Some(Outcome("run_growth_projections",
                                                  "none", new, written = 3))

\* master.run_growth_projections called for the request req: constructs a
\* projector and runs it like main() of growth_projector.py does, all inside
\* try/except Exception; its result (True/False) is the `returned` of the
\* outcome
run_growth_projections(req) ==
    LET loaded == load_benchmarks(benchmark_file)
        truthy == req.args.monthly_ad_spend # 0 /\ req.args.aov # 0
        result(b) == /\ outcome' = Some(Outcome("run_growth_projections",
                                                "none", {}, b))
                     /\ last' = None
                     /\ prev' = None
                     /\ UNCHANGED artifacts
    IN  IF loaded.raised # "none" THEN result(FALSE)
        ELSE IF req.mode = "unparsable" THEN result(TRUE)
        ELSE IF req.mode = "interactive" \/ (req.mode = "cli" /\ truthy)
             THEN GenerateAndSaveCaught(loaded.benchmarks, req.args)
        ELSE IF req.config = None THEN result(FALSE)
        ELSE GenerateAndSaveCaught(loaded.benchmarks, Val(req.config))

\* master.run_growth_projections is called with the values of this run
RunGrowthProjections ==
    /\ ~projector.constructed
    /\ \A o \in outcome : o.handler = "run_growth_projections"
    /\ run_growth_projections(request)
    /\ UNCHANGED <<request, benchmark_file, projector, clock, monthly_call,
                   frames, master>>

Next ==
    \/ Tick
    \/ SaveBenchmarks
    \/ Construct
    \/ RunFromConfig
    \/ RunInteractive
    \/ RunCli
    \/ RunGrowthProjections

Spec == Init /\ [][Next]_vars

(***************************************************************************)
(* SpecSeries: generate_projections called, again and again as time        *)
(* passes, on a constructed projector with arguments drawn from bounded    *)
(* sets                                                                    *)
(***************************************************************************)
SeriesArgs ==
    {Args(spend, aov, cpc, cr, months) :
        spend \in {-100, 0, 500000}, aov \in {0, 6500},
        cpc \in {None, Some(0), Some(250)}, cr \in {None, Some(175)},
        months \in {0, 1, 3, 7}}

InitSeries ==
    /\ request \in {Request("call", a, None) : a \in SeriesArgs}
    /\ benchmark_file \in
          {FileAbsent, FileWithRate}
              \cup {save_benchmarks(m) : m \in MeasuredAverages}
    /\ projector = [constructed |-> TRUE,
                    benchmarks |-> load_benchmarks(benchmark_file).benchmarks,
                    config |-> None]
    /\ last = None
    /\ prev = None
    /\ artifacts = {}
    /\ outcome = None
    /\ clock = 0
    /\ monthly_call = None
    /\ frames = NoFrames
    /\ master = NoMaster

\* a caller invokes generate_projections on the projector
GenerateProjections ==
    /\ projector.constructed
    /\ request.mode = "call"
    /\ \E inv \in {generate_projections(projector.benchmarks, request.args,
                                         clock)} :
           /\ last' = Some(inv)
           /\ prev' = Earlier(inv)
           /\ outcome' = Some(Outcome("generate_projections", inv.raised, {},
                                      inv.report # None))
    /\ UNCHANGED <<request, benchmark_file, projector, artifacts, clock,
                   monthly_call, frames, master>>

NextSeries ==
    \/ Tick
    \/ GenerateProjections

SpecSeries == InitSeries /\ [][NextSeries]_vars

(***************************************************************************)
(* SpecMonthly: calculate_monthly_projection applied month after month to  *)
(* inputs drawn from bounded sets                                          *)
(***************************************************************************)
MonthlySpends == {-100, 0, 100, 500000}
MonthlyAovs == {0, 6500}
MonthlyCpcs == {0, 200, DEFAULT_avg_cpc}
MonthlyRates == {DEFAULT_conversion_rate_month_1_3, 175}

MonthlyInputs ==
    [monthly_ad_spend : MonthlySpends, aov : MonthlyAovs,
     base_cpc : MonthlyCpcs, base_conversion_rate : MonthlyRates]

InitMonthly ==
    /\ Idle
    /\ request = Request("call", ArgsEndToEnd, None)
    /\ benchmark_file = FileAbsent
    /\ monthly_call \in
          {[inputs |-> i, month |-> 0, raised |-> "none", record |-> None,
            before |-> None] : i \in MonthlyInputs}

\* the caller computes the record of the next month for the same inputs;
\* `before` keeps the record of the month before it
CalculateMonthlyProjection ==
    /\ monthly_call.month < MaxMonth
    /\ LET i == monthly_call.inputs
           month == monthly_call.month + 1
           raises == monthly_raises(month, i.base_cpc)
       IN  monthly_call' =
              [inputs |-> i,
               month |-> month,
               raised |-> IF raises THEN "ZeroDivisionError" ELSE "none",
               record |-> IF raises THEN None
                          ELSE Some(calculate_monthly_projection(
                                      month, i.monthly_ad_spend, i.aov,
                                      i.base_cpc, i.base_conversion_rate)),
               before |-> monthly_call.record]
    /\ UNCHANGED <<request, benchmark_file, projector, last, prev, artifacts,
                   outcome, clock, frames, master>>

NextMonthly == CalculateMonthlyProjection

SpecMonthly == InitMonthly /\ [][NextMonthly]_vars

(***************************************************************************)
(* SpecTraffic: the traffic lines of calculate_monthly_projection          *)
(* (paid_clicks, organic_pct, total_traffic, organic_traffic) applied to   *)
(* an organic_growth_curve entry drawn from a bounded set; the built-in    *)
(* table only holds entries up to 35                                       *)
(***************************************************************************)
\* organic_growth_curve entries, percent of total traffic
TrafficShares == {0, 5, 35, 50, 99, 100, 101, 150, 200, 1000}

TrafficInputs ==
    [monthly_ad_spend : {-100, 0, 100, 500000},
     effective_cpc : {Cents(200), Cents(DEFAULT_avg_cpc)},
     share : TrafficShares]

InitTraffic ==
    /\ Idle
    /\ request = Request("call", ArgsEndToEnd, None)
    /\ benchmark_file = FileAbsent
    /\ monthly_call \in {[inputs |-> i, result |-> None] : i \in TrafficInputs}

\* paid_clicks = monthly_ad_spend / effective_cpc
\* organic_pct = defaults['organic_growth_curve'].get(month, 35) / 100
\* total_traffic = ...; organic_traffic = total_traffic * organic_pct
traffic_lines(i) ==
    LET paid_clicks == RDiv(Cents(i.monthly_ad_spend), i.effective_cpc)
        o_pct == Rat(i.share, 100)
    IN  [paid_clicks |-> paid_clicks,
         organic_pct |-> o_pct,
         total_traffic |-> total_traffic(paid_clicks, o_pct),
         organic_traffic |-> RMul(total_traffic(paid_clicks, o_pct), o_pct)]

TotalTraffic ==
    /\ monthly_call.result = None
    /\ monthly_call' =
          [monthly_call EXCEPT !.result = Some(traffic_lines(monthly_call.inputs))]
    /\ UNCHANGED <<request, benchmark_file, projector, last, prev, artifacts,
                   outcome, clock, frames, master>>

NextTraffic == TotalTraffic

SpecTraffic == InitTraffic /\ [][NextTraffic]_vars

(***************************************************************************)
(* SpecShared: two threads call generate_projections on one projector.     *)
(* A frame holds the locals of one invocation; a step is one stretch of    *)
(* the function between two points where the other thread may run.         *)
(***************************************************************************)
\* the inputs the callers choose from: benchmark defaults, overrides, a
\* zero CPC, an empty horizon
SharedArgs ==
    {Args(500000, 6500, None, None, 2),
     Args(100, 6500, Some(200), Some(175), 3),
     Args(500000, 6500, Some(0), None, 1),
     Args(500000, 6500, None, Some(175), 0)}

\* variant: the resolved CPC is kept on the projector for the next call
benchmarks_after_cached(benchmarks, cpc) ==
    BenchmarksWith(Some(
        [avg_cpc |-> Some(cpc),
         conversion_rate_month_1_3 |->
            IF benchmarks.industry_averages = None THEN None
            ELSE Val(benchmarks.industry_averages).conversion_rate_month_1_3]))

\* self.benchmarks once the defaults are resolved: lines 183-189 assign the
\* local names cpc and conversion_rate only
benchmarks_after(benchmarks, cpc) == benchmarks

\* variant: the monthly list is kept in one place for all invocations
monthly_list_shared(caller) == 1

\* the frame that holds the list an invocation appends to: `projections` is
\* a dict created by the invocation itself (line 201)
monthly_list_of(caller) == caller

InitShared ==
    /\ request = Request("call", ArgsEndToEnd, None)
    /\ benchmark_file \in {FileAbsent, save_benchmarks(Some(200))}
    /\ projector = [constructed |-> TRUE,
                    benchmarks |-> load_benchmarks(benchmark_file).benchmarks,
                    config |-> Some(ArgsBenchmarked)]
    /\ last = None
    /\ prev = None
    /\ artifacts = {}
    /\ outcome = None
    /\ clock = 0
    /\ monthly_call = None
    /\ frames = NoFrames
    /\ master = NoMaster

\* generate_projections is entered and resolves cpc and conversion_rate
\* against self.benchmarks (lines 161-189)
Enter(c) ==
    /\ frames[c].pc = "idle"
    /\ \E a \in SharedArgs :
       \E cpc \in {base_cpc(projector.benchmarks, a.cpc)} :
          /\ frames' = [frames EXCEPT ![c] =
                 [NoFrame EXCEPT
                    !.pc = "resolved",
                    !.args = Some(a),
                    !.cpc = cpc,
                    !.conversion_rate =
                        base_conversion_rate(projector.benchmarks,
                                             a.conversion_rate)]]
          /\ projector' = [projector EXCEPT
                 !.benchmarks = benchmarks_after(projector.benchmarks, cpc)]
    /\ UNCHANGED <<request, benchmark_file, last, prev, artifacts, outcome,
                   clock, monthly_call, master>>

\* the projections dict is created with its empty monthly list (201-212)
NewReport(c) ==
    /\ frames[c].pc = "resolved"
    /\ frames' = [frames EXCEPT ![c].pc = "looping",
                                ![c].month = 1,
                                ![c].generated_at = clock,
                                ![monthly_list_of(c)].monthly = <<>>]
    /\ UNCHANGED <<request, benchmark_file, projector, last, prev, artifacts,
                   outcome, clock, monthly_call, master>>

\* one turn of the loop: the month's record is computed and appended, or
\* the division by a zero CPC raises out of the function (215-223)
AppendMonth(c) ==
    /\ frames[c].pc = "looping"
    /\ frames[c].month <= Val(frames[c].args).months
    /\ LET f == frames[c]
           a == Val(f.args)
       IN  IF monthly_raises(f.month, f.cpc)
           THEN frames' = [frames EXCEPT ![c].pc = "done",
                                         ![c].raised = "ZeroDivisionError"]
           ELSE \E rec \in {calculate_monthly_projection(
                                f.month, a.monthly_ad_spend, a.aov, f.cpc,
                                f.conversion_rate)} :
                   frames' = [frames EXCEPT
                       ![monthly_list_of(c)].monthly = Append(@, rec),
                       ![c].month = @ + 1]
    /\ UNCHANGED <<request, benchmark_file, projector, last, prev, artifacts,
                   outcome, clock, monthly_call, master>>

\* after the loop: the summary is computed from the monthly list and the
\* dict returned; monthly[-1] on an empty list raises IndexError (225-259)
Summarise(c) ==
    /\ frames[c].pc = "looping"
    /\ frames[c].month > Val(frames[c].args).months
    /\ LET f == frames[c]
           monthly == frames[monthly_list_of(c)].monthly
       IN  IF monthly = <<>>
           THEN frames' = [frames EXCEPT ![c].pc = "done",
                                         ![c].raised = "IndexError"]
           ELSE \E r \in {report_of(Val(f.args), f.cpc, f.conversion_rate,
                                     monthly, f.generated_at)} :
                   frames' = [frames EXCEPT ![c].pc = "done",
                                            ![c].report = Some(r)]
    /\ UNCHANGED <<request, benchmark_file, projector, last, prev, artifacts,
                   outcome, clock, monthly_call, master>>

\* the caller has its result (or exception); it may call again
Return(c) ==
    /\ frames[c].pc = "done"
    /\ frames' = [frames EXCEPT ![c] = NoFrame]
    /\ UNCHANGED <<request, benchmark_file, projector, last, prev, artifacts,
                   outcome, clock, monthly_call, master>>

NextShared ==
    \E c \in Callers :
        \/ Enter(c)
        \/ NewReport(c)
        \/ AppendMonth(c)
        \/ Summarise(c)
        \/ Return(c)

SpecShared == InitShared /\ [][NextShared]_vars

(***************************************************************************)
(* SpecMaster: one invocation of master.main.  The pipelines other than    *)
(* the paid media benchmarks and the growth projections are taken by their *)
(* result alone: they succeed, report a failure, or raise.                 *)
(***************************************************************************)
\* the mode flags of the command line (argparse destinations; the two
\* values of --business-age are two flags here)
ModeFlags ==
    {"config", "business_age_new", "business_age_established", "new_business",
     "semrush", "traffic", "paid", "reviews", "sentiment", "projections",
     "projections_interactive", "all"}

\* the command lines: no mode flag, one, any two, or as many as can go
\* together with and without --config (--business-age has one value)
FlagSets ==
    {f \in SUBSET ModeFlags :
        /\ ~({"business_age_new", "business_age_established"} \subseteq f)
        /\ \/ Cardinality(f) <= 2
           \/ ModeFlags \ {"business_age_new", "config"} \subseteq f}

\* variant: --all is looked at first
mode_of_all_first(flags) ==
    IF "config" \in flags THEN "show_config"
    ELSE IF "all" \in flags THEN "run_all"
    ELSE IF "business_age_new" \in flags \/ "new_business" \in flags
         THEN "run_new_business_analysis"
    ELSE IF "business_age_established" \in flags
         THEN "run_established_business_analysis"
    ELSE IF "semrush" \in flags THEN "run_semrush_export"
    ELSE IF "traffic" \in flags THEN "run_traffic_analysis"
    ELSE IF "paid" \in flags THEN "run_paid_media_benchmarks"
    ELSE IF "reviews" \in flags THEN "run_reviews_scraper"
    ELSE IF "sentiment" \in flags THEN "run_sentiment_analysis"
    ELSE IF "projections" \in flags THEN "run_growth_projections"
    ELSE IF "projections_interactive" \in flags
         THEN "run_growth_projections_interactive"
    ELSE "print_help"

\* the function main() calls: `if args.config: ... return`, then the
\* if/elif chain
mode_of(flags) ==
    IF "config" \in flags THEN "show_config"
    ELSE IF "business_age_new" \in flags \/ "new_business" \in flags
         THEN "run_new_business_analysis"
    ELSE IF "business_age_established" \in flags
         THEN "run_established_business_analysis"
    ELSE IF "semrush" \in flags THEN "run_semrush_export"
    ELSE IF "traffic" \in flags THEN "run_traffic_analysis"
    ELSE IF "paid" \in flags THEN "run_paid_media_benchmarks"
    ELSE IF "reviews" \in flags THEN "run_reviews_scraper"
    ELSE IF "sentiment" \in flags THEN "run_sentiment_analysis"
    ELSE IF "projections" \in flags THEN "run_growth_projections"
    ELSE IF "projections_interactive" \in flags
         THEN "run_growth_projections_interactive"
    ELSE IF "all" \in flags THEN "run_all"
    ELSE "print_help"

\* run_all, in the order of its calls
AllPipelines ==
    <<"semrush", "traffic", "paid_media", "reviews", "sentiment", "projections">>

\* run_new_business_analysis, steps 1 to 4
NewBusinessPipelines == <<"paid_media", "traffic", "reviews", "projections">>

\* variant: the projections are generated first
pipelines_of_projections_first(mode) ==
    IF mode = "run_all" THEN AllPipelines
    ELSE IF mode = "run_new_business_analysis"
         THEN <<"projections", "paid_media", "traffic", "reviews">>
    ELSE IF mode = "run_established_business_analysis"
         THEN <<"semrush", "traffic", "paid_media", "reviews", "sentiment">>
    ELSE IF mode = "run_semrush_export" THEN <<"semrush">>
    ELSE IF mode = "run_traffic_analysis" THEN <<"traffic">>
    ELSE IF mode = "run_paid_media_benchmarks" THEN <<"paid_media">>
    ELSE IF mode = "run_reviews_scraper" THEN <<"reviews">>
    ELSE IF mode = "run_sentiment_analysis" THEN <<"sentiment">>
    ELSE IF mode \in {"run_growth_projections",
                      "run_growth_projections_interactive"}
         THEN <<"projections">>
    ELSE <<>>

\* the pipelines a mode function calls, in the order of its calls
pipelines_of(mode) ==
    IF mode = "run_all" THEN AllPipelines
    ELSE IF mode = "run_new_business_analysis" THEN NewBusinessPipelines
    ELSE IF mode = "run_established_business_analysis"
         THEN <<"semrush", "traffic", "paid_media", "reviews", "sentiment">>
    ELSE IF mode = "run_semrush_export" THEN <<"semrush">>
    ELSE IF mode = "run_traffic_analysis" THEN <<"traffic">>
    ELSE IF mode = "run_paid_media_benchmarks" THEN <<"paid_media">>
    ELSE IF mode = "run_reviews_scraper" THEN <<"reviews">>
    ELSE IF mode = "run_sentiment_analysis" THEN <<"sentiment">>
    ELSE IF mode \in {"run_growth_projections",
                      "run_growth_projections_interactive"}
         THEN <<"projections">>
    ELSE <<>>

\* what a pipeline run comes to: it returns a truthy result, it returns a
\* falsy one, or it raises an Exception
PipelineEnds == {"ok", "failed", "raised"}

\* variant: an exception of a pipeline leaves the mode function
after_pipeline_abort(pending, end) ==
    IF end = "raised" THEN <<>> ELSE Tail(pending)

\* the calls still to make once a pipeline function has returned: each
\* run_* function catches Exception and returns False
after_pipeline(pending, end) == Tail(pending)

\* results[pipeline] = the value the run_* function returned
recorded(pipeline, end) ==
    [master EXCEPT
        !.results = Append(@, [pipeline |-> pipeline, end |-> end,
                               success |-> (end = "ok")]),
        !.pending = after_pipeline(@, end)]

\* the arguments master hands to run_growth_projections: the command line
\* values under --projections, interactive=True under
\* --projections-interactive, nothing from run_all and the business modes
projection_request(mode) ==
    IF mode = "run_growth_projections" THEN request
    ELSE IF mode = "run_growth_projections_interactive"
         THEN Request("interactive", request.args, request.config)
    ELSE Request("config", request.args, request.config)

InitMaster ==
    /\ request = Request("cli", ArgsEndToEnd, Some(ArgsBenchmarked))
    /\ benchmark_file \in {FileAbsent, FileWithRate}
    /\ projector = NotConstructed
    /\ last = None
    /\ prev = None
    /\ artifacts = {}
    /\ outcome = None
    /\ clock = 0
    /\ monthly_call = None
    /\ frames = NoFrames
    /\ master \in {[NoMaster EXCEPT !.flags = f] : f \in FlagSets}

\* main(): the arguments are parsed, the config is loaded (FileNotFoundError
\* leaves main when it is missing), and the mode function is chosen
Main ==
    /\ master.pc = "start"
    /\ \E found \in BOOLEAN :
          master' =
             IF found
             THEN [master EXCEPT
                     !.pc = "running",
                     !.mode = mode_of(master.flags),
                     !.pending = pipelines_of(mode_of(master.flags))]
             ELSE [master EXCEPT !.pc = "done"]
    /\ UNCHANGED <<request, benchmark_file, projector, last, prev, artifacts,
                   outcome, clock, monthly_call, frames>>

\* run_semrush_export, run_traffic_analysis, run_reviews_scraper,
\* run_sentiment_analysis
RunPipeline ==
    /\ master.pc = "running"
    /\ master.pending # <<>>
    /\ Head(master.pending) \in {"semrush", "traffic", "reviews", "sentiment"}
    /\ \E end \in PipelineEnds :
          master' = recorded(Head(master.pending), end)
    /\ UNCHANGED <<request, benchmark_file, projector, last, prev, artifacts,
                   outcome, clock, monthly_call, frames>>

\* run_paid_media_benchmarks: PaidMediaBenchmarks.run saves the benchmark
\* file and returns True, or returns False without a Chrome connection, or
\* an exception is caught before anything is saved
RunPaidMediaBenchmarks ==
    /\ master.pc = "running"
    /\ master.pending # <<>>
    /\ Head(master.pending) = "paid_media"
    /\ \E end \in PipelineEnds :
          /\ master' = recorded("paid_media", end)
          /\ IF end = "ok"
             THEN \E all_cpcs_avg \in MeasuredAverages :
                     benchmark_file' = save_benchmarks(all_cpcs_avg)
             ELSE UNCHANGED benchmark_file
    /\ UNCHANGED <<request, projector, last, prev, artifacts, outcome, clock,
                   monthly_call, frames>>

\* run_growth_projections as a pipeline of master
RunProjectionsPipeline ==
    /\ master.pc = "running"
    /\ master.pending # <<>>
    /\ Head(master.pending) = "projections"
    /\ run_growth_projections(projection_request(master.mode))
    /\ master' = recorded("projections",
                          IF Val(outcome').returned THEN "ok" ELSE "failed")
    /\ UNCHANGED <<request, benchmark_file, projector, clock, monthly_call,
                   frames>>

\* the mode function returns: all(results.values()) for the pipelines it ran
Finish ==
    /\ master.pc = "running"
    /\ master.pending = <<>>
    /\ master' = [master EXCEPT
          !.pc = "done",
          !.returned = Some(\A k \in 1..Len(master.results) :
                               master.results[k].success)]
    /\ UNCHANGED <<request, benchmark_file, projector, last, prev, artifacts,
                   outcome, clock, monthly_call, frames>>

NextMaster ==
    \/ Main
    \/ RunPipeline
    \/ RunPaidMediaBenchmarks
    \/ RunProjectionsPipeline
    \/ Finish

SpecMaster == InitMaster /\ [][NextMaster]_vars

(***************************************************************************)
(* SpecSave: reports are generated and saved on one projector, one after   *)
(* the other, as time passes                                               *)
(***************************************************************************)
\* the inputs of the reports that get saved
SaveArgs == {ArgsEndToEnd, Args(500000, 6500, None, None, 1)}

InitSave ==
    /\ request = Request("call", ArgsEndToEnd, None)
    /\ benchmark_file = FileAbsent
    /\ projector = [constructed |-> TRUE,
                    benchmarks |-> load_benchmarks(benchmark_file).benchmarks,
                    config |-> None]
    /\ last = None
    /\ prev = None
    /\ artifacts = {}
    /\ outcome = None
    /\ clock = 0
    /\ monthly_call = None
    /\ frames = NoFrames
    /\ master = NoMaster

\* time passes between the saves
TickSave ==
    /\ clock < MaxSaveClock
    /\ clock' = clock + 1
    /\ UNCHANGED <<request, benchmark_file, projector, last, prev, artifacts,
                   outcome, monthly_call, frames, master>>

\* generate_projections, then save_projections with the default filename
\* prefix: `written` of the three files get written, each opened with 'w'.
\* `last` keeps the report with the files of its save and the files that
\* were at their paths before.
SaveProjections ==
    /\ projector.constructed
    /\ \E a \in SaveArgs :
       \E inv \in {generate_projections(projector.benchmarks, a, clock)} :
       \E written \in 0..3 :
          LET new == saved_files(Val(inv.report), timestamp(clock), written)
          IN  /\ artifacts' = write_files(artifacts, new)
              /\ last' = Some([args |-> inv.args,
                               benchmarks |-> inv.benchmarks,
                               raised |-> inv.raised,
                               report |-> inv.report,
                               saved |-> new,
                               replaced |-> replaced_files(artifacts, new)])
              /\ prev' = None
              /\ outcome' = Some(Outcome("save_projections",
                                         IF written < 3 THEN "OSError"
                                         ELSE "none",
                                         new, written = 3))
    /\ UNCHANGED <<request, benchmark_file, projector, clock, monthly_call,
                   frames, master>>

NextSave ==
    \/ TickSave
    \/ SaveProjections

SpecSave == InitSave /\ [][NextSave]_vars

(***************************************************************************)
(* Properties of generate_projections and of the runs                      *)
(***************************************************************************)
\* C1: whenever monthly_ad_spend < 0, or aov <= 0, or months < 1,
\* generate_projections fails with an error that reaches the caller (any
\* exception is counted as the rejection), and returns no projection of the
\* input.
C1_InvalidInputRejected ==
    \A inv \in last :
        ~ValidInput(inv.args) =>
            inv.raised # "none" /\ inv.report = None

\* an invalid input has been projected: a report came back for it
C1_InvalidInputProjected ==
    \E inv \in last :
        /\ inv.args.monthly_ad_spend < 0
        /\ inv.raised = "none"
        /\ inv.report # None
        /\ Len(Val(inv.report).monthly) = inv.args.months

RunHandlers == {"main", "run_from_config", "run_interactive"}

\* C2: in every run path (CLI arguments, run_from_config, run_interactive)
\* started with an invalid projection input, the run raises an error (any
\* exception is counted as the validation error) and writes no artifact.
C2_InvalidRunWritesNothing ==
    \A o \in outcome : \A inv \in last :
        (o.handler \in RunHandlers /\ ~ValidInput(inv.args)) =>
            o.raised # "none" /\ o.written = {}

\* a run on {ad_spend=-1, aov=65, months=3} has written its three files
C2_InvalidRunSaved ==
    \E o \in outcome : \E inv \in last :
        /\ o.handler \in RunHandlers
        /\ inv.args = ArgsNegativeSpend
        /\ o.raised = "none"
        /\ {f.kind : f \in o.written} = {"json", "csv", "txt"}
        /\ o.written \subseteq artifacts

\* C3: loading benchmarks never aborts: with the benchmark file absent, or
\* present but unparsable, construction completes and the projector holds
\* the built-in default curve set.
C3_LoadNeverAborts ==
    \A o \in outcome :
        (o.handler = "__init__" /\ ~(benchmark_file.exists /\ benchmark_file.parsable)) =>
            /\ o.raised = "none"
            /\ projector.constructed
            /\ projector.benchmarks = BenchmarksWith(Some(DEFAULT_industry_averages))

\* construction on an unparsable benchmark file has raised
C3_UnparsableAborts ==
    \E o \in outcome :
        /\ o.handler = "__init__"
        /\ benchmark_file = FileUnparsable
        /\ o.raised = "JSONDecodeError"
        /\ ~projector.constructed

\* the loaded benchmarks that carry no usable measured CPC: file absent
\* (built-in defaults), avg_cpc null, no industry_averages record
NoMeasuredCpc ==
    {load_benchmarks(FileAbsent).benchmarks,
     load_benchmarks(save_benchmarks(None)).benchmarks,
     load_benchmarks(FileNoAverages).benchmarks}

\* C4: with loaded benchmarks that carry no usable measured CPC, a
\* projection with valid inputs and no cpc override completes and its base
\* CPC is the built-in default avg_cpc (2.50).
C4_DefaultCpcWithoutMeasured ==
    \A inv \in last :
        (/\ ValidInput(inv.args)
         /\ inv.args.cpc = None
         /\ inv.benchmarks \in NoMeasuredCpc) =>
            /\ inv.raised = "none"
            /\ inv.report # None
            /\ Val(inv.report).inputs.base_cpc = DEFAULT_avg_cpc
            /\ Val(inv.report).monthly[1].effective_cpc = DEFAULT_avg_cpc

\* a valid run without cpc override on a benchmark file whose avg_cpc is null
C4_Witness ==
    \E inv \in last : \E o \in outcome :
        /\ ValidInput(inv.args)
        /\ inv.args.cpc = None
        /\ inv.benchmarks = save_benchmarks(None).content
        /\ Val(inv.report).inputs.base_cpc = DEFAULT_avg_cpc
        /\ o.handler \in RunHandlers
        /\ o.raised = "none"

\* two invocations on the same arguments and the same curve set
SamePair(p, l) == p.args = l.args /\ p.benchmarks = l.benchmarks

EndToEndInputs ==
    [monthly_ad_spend |-> 500000, aov |-> 6500, base_cpc |-> 250,
     base_conversion_rate |-> 150]

\* a monthly input that satisfies the Projection Input constraints
ValidMonthlyInput(i) ==
    /\ i.monthly_ad_spend >= 0
    /\ i.aov > 0
    /\ i.base_cpc > 0
    /\ i.base_conversion_rate > 0 /\ i.base_conversion_rate <= 10000

\* the month-1 values of the scenario other than cac
EndToEndFields(r) ==
    /\ r.effective_cpc = 250
    /\ r.paid_traffic = 2000
    /\ r.paid_orders = 300
    /\ r.paid_revenue = 195000
    /\ r.organic_pct = 50
    /\ r.organic_traffic = 105
    /\ r.organic_orders = 21
    /\ r.organic_revenue = 13342
    /\ r.total_traffic = 2105
    /\ r.total_orders = 321
    /\ r.total_revenue = 208342
    /\ r.roas = 42

AtEndToEndMonth1 ==
    monthly_call.inputs = EndToEndInputs /\ monthly_call.month = 1

\* C6 as stated: the month-1 record of the end-to-end scenario has the listed
\* values, cac = 156.02 among them
C6_EndToEndAsStated ==
    AtEndToEndMonth1 =>
        \E r \in monthly_call.record : EndToEndFields(r) /\ r.cac = 15602

\* C6 amended: the month-1 record of the end-to-end scenario has the listed
\* values with cac = 155.99 (5000 / 32.0526 orders)
C6_EndToEndMonth1 ==
    AtEndToEndMonth1 =>
        \E r \in monthly_call.record : EndToEndFields(r) /\ r.cac = 15599

C6_Witness == AtEndToEndMonth1 /\ monthly_call.record # None

\* the tier multiplier of a month, in halves: 1.0, 1.5, 2.0
TierHalves(month) == IF month <= 3 THEN 2 ELSE IF month <= 6 THEN 3 ELSE 4

\* C7 as stated: the record's effective_cr is exactly base, 1.5 x base or
\* 2.0 x base by tier, and month 4 is exactly 1.5 times month 3
C7_TieredRateExact ==
    \A r \in monthly_call.record :
        ValidMonthlyInput(monthly_call.inputs) =>
        /\ 2 * r.effective_cr =
              TierHalves(r.month) * monthly_call.inputs.base_conversion_rate
        /\ r.month = 4 =>
              \A b \in monthly_call.before :
                  2 * r.effective_cr = 3 * b.effective_cr

\* C7 amended: the record's effective_cr is the tier value (base, 1.5 x base,
\* 2.0 x base) rounded to two decimals; it is the exact multiple when that
\* multiple has at most two decimals, which always holds for the 2.0 tier and
\* holds for the 1.5 tier of a base with an even number of hundredths
C7_TieredRateRounded ==
    \A r \in monthly_call.record :
        LET base == monthly_call.inputs.base_conversion_rate
            exact == TierHalves(r.month) * base
        IN  /\ Abs(2 * r.effective_cr - exact) <= 1
            /\ exact % 2 = 0 => 2 * r.effective_cr = exact
            /\ r.month >= 7 => r.effective_cr = 2 * base
            /\ r.month <= 3 => r.effective_cr = base

\* month 4 of a base rate whose 1.5 multiple needs a third decimal
C7_Witness ==
    /\ monthly_call.month = 4
    /\ monthly_call.inputs.base_conversion_rate % 2 = 1
    /\ monthly_call.record # None
    /\ monthly_call.before # None

\* C8: in every monthly record the rounded organic and paid traffic add up
\* to the rounded total traffic within one unit
C8_TrafficConservation ==
    \A r \in monthly_call.record :
        Abs(r.organic_traffic + r.paid_traffic - r.total_traffic) <= 1

\* a record of a valid input in which the three roundings do not add up
C8_Witness ==
    /\ ValidMonthlyInput(monthly_call.inputs)
    /\ \E r \in monthly_call.record :
          /\ r.paid_traffic > 0
          /\ r.organic_traffic + r.paid_traffic # r.total_traffic

\* C9: with ad_spend > 0 the record's roas is total_revenue / ad_spend within
\* the two-decimal rounding of both record fields
\* (|roas - revenue/spend| <= 0.005 + 0.005/spend); with ad_spend = 0 the
\* record is produced and its roas is 0
C9_RoasLaw ==
    LET i == monthly_call.inputs
    IN  /\ \A r \in monthly_call.record :
              /\ r.ad_spend > 0 =>
                    Abs(2 * r.roas * r.ad_spend - 200 * r.total_revenue)
                        <= r.ad_spend + 100
              /\ r.ad_spend = 0 => r.roas = 0
        /\ (monthly_call.month >= 1 /\ i.monthly_ad_spend = 0
                /\ i.base_cpc > 0) =>
              /\ monthly_call.raised = "none"
              /\ monthly_call.record # None

\* a record with a positive spend and a non-zero return
C9_Witness ==
    \E r \in monthly_call.record :
        r.ad_spend > 0 /\ r.roas > 0 /\ r.total_revenue > 0

\* the unrounded order count behind the latest record
UnroundedTotalOrders ==
    LET i == monthly_call.inputs
    IN  monthly_unrounded(monthly_call.month, i.monthly_ad_spend, i.aov,
                          i.base_cpc, i.base_conversion_rate).total_orders

\* C10 as stated: a record whose total_orders is 0 has cac = 0
C10_CacZeroWithRecordOrders ==
    \A r \in monthly_call.record :
        (ValidMonthlyInput(monthly_call.inputs) /\ r.total_orders = 0)
            => r.cac = 0

\* C10 amended: cac is 0 when the unrounded order count is not positive;
\* otherwise it is ad_spend / (unrounded total_orders) rounded to two
\* decimals, also when the record's total_orders has rounded to 0.0
C10_CacLawUnrounded ==
    \A r \in monthly_call.record :
        LET u == UnroundedTotalOrders
        IN  /\ ~RPos(u) => r.cac = 0
            /\ RPos(u) =>
                  \* |cac - spend / orders| <= 0.005
                  LET q == RDiv(Cents(monthly_call.inputs.monthly_ad_spend), u)
                  IN  Abs(2 * r.cac * q[2] - 200 * q[1]) <= q[2]

\* a record whose order count rounds to 0.0 and whose cac is not 0
C10_Witness ==
    /\ ValidMonthlyInput(monthly_call.inputs)
    /\ \E r \in monthly_call.record : r.total_orders = 0 /\ r.cac > 0

(***************************************************************************)
(* Properties of the traffic lines                                         *)
(***************************************************************************)
\* C11: when the organic share is 100 percent or more (organic_pct >= 1),
\* total_traffic equals paid_clicks; the traffic values are finite (no
\* division by zero) whatever the share; and with a spend that is not
\* negative the traffic is not negative.
C11_BoundaryGuard ==
    \A r \in monthly_call.result :
        /\ monthly_call.inputs.share >= 100 => r.total_traffic = r.paid_clicks
        /\ r.total_traffic[2] > 0
        /\ r.organic_traffic[2] > 0
        /\ monthly_call.inputs.monthly_ad_spend >= 0 =>
              r.total_traffic[1] >= 0 /\ r.organic_traffic[1] >= 0

\* a full organic share on a positive number of paid clicks
C11_Witness ==
    \E r \in monthly_call.result :
        /\ monthly_call.inputs.share = 100
        /\ RPos(r.paid_clicks)
        /\ r.total_traffic = r.paid_clicks
        /\ r.organic_traffic = r.paid_clicks

(***************************************************************************)
(* Properties of the summary and of the monthly series                     *)
(***************************************************************************)
\* sum of a field over the records 1..min(k, len) of a monthly list
WindowSum(monthly, k, field) == SumField(monthly, Min(k, Len(monthly)), field)

\* q is num / den to 2-decimal rounding (q in hundredths, den > 0)
RatioRounded(q, num, den) == Abs(2 * q * den - 200 * num) <= den

\* roas (hundredths) of a window with the given sums (cents)
RoasOf(q, revenue, spend) ==
    /\ spend > 0 => RatioRounded(q, revenue, spend)
    /\ spend = 0 => q = 0

\* total_spend, total_revenue, total_orders and roas of a summary block are
\* those of the records 1..min(k, len)
RollsUp(block, monthly, k) ==
    /\ block.total_spend = WindowSum(monthly, k, "ad_spend")
    /\ block.total_revenue = WindowSum(monthly, k, "total_revenue")
    /\ block.total_orders = WindowSum(monthly, k, "total_orders")
    /\ RoasOf(block.roas, WindowSum(monthly, k, "total_revenue"),
              WindowSum(monthly, k, "ad_spend"))

\* the reports generate_projections has returned
Reports == UNION {inv.report : inv \in last}

\* C12: for each summary window (first 3 months, first 6 months) the totals
\* are the sums of the window's monthly values and roas is their ratio, 0
\* when the summed spend is 0; avg_cac is (sum of spend)/(sum of orders) over
\* the full series, 0 when the summed orders are 0.
C12_SummaryRollups ==
    \A r \in Reports :
        LET n == Len(r.monthly)
            spend == SumField(r.monthly, n, "ad_spend")
            orders == SumField(r.monthly, n, "total_orders")
        IN  /\ RollsUp(r.summary.m3, r.monthly, 3)
            /\ RollsUp(r.summary.m6, r.monthly, 6)
            /\ orders > 0 =>
                  Abs(2 * r.summary.avg_cac * orders - 20 * spend) <= orders
            /\ orders = 0 => r.summary.avg_cac = 0

\* a 7-month series whose 6_month block holds the revenue of all 7 months
C12_SevenMonthsInSixMonthBlock ==
    \E r \in Reports :
        /\ Len(r.monthly) = 7
        /\ r.monthly[7].total_revenue > 0
        /\ r.summary.m6.total_revenue = SumField(r.monthly, 7, "total_revenue")
        /\ RollsUp(r.summary.m3, r.monthly, 3)

\* C13: for every horizon months >= 1, the organic_traffic_pct of the
\* 3-month (6-month) summary is the organic_pct of record min(3, months)
\* (min(6, months)), and paid_traffic_pct is 100 minus it.
C13_WindowShareFromLastMonth ==
    \A r \in Reports :
        LET n == Len(r.monthly)
        IN  /\ r.summary.m3.organic_traffic_pct = r.monthly[Min(3, n)].organic_pct
            /\ r.summary.m3.paid_traffic_pct = 1000 - r.monthly[Min(3, n)].organic_pct
            /\ r.summary.m6.organic_traffic_pct = r.monthly[Min(6, n)].organic_pct
            /\ r.summary.m6.paid_traffic_pct = 1000 - r.monthly[Min(6, n)].organic_pct

\* a 1-month series whose 3_month block reports an organic share of 0
C13_ShortSeriesShareZero ==
    \E r \in Reports :
        /\ Len(r.monthly) = 1
        /\ r.monthly[1].organic_pct = 50
        /\ r.summary.m3.organic_traffic_pct = 0
        /\ r.summary.m3.paid_traffic_pct = 1000
        /\ r.summary.m6.organic_traffic_pct = 50

\* C14: the 6_month summary aggregates records 1..min(6, months), the
\* 3_month summary records 1..min(3, months), for every horizon months >= 1,
\* horizons longer than 6 months included.
C14_SixMonthWindow ==
    \A r \in Reports :
        /\ r.summary.m6.total_spend = WindowSum(r.monthly, 6, "ad_spend")
        /\ r.summary.m6.total_revenue = WindowSum(r.monthly, 6, "total_revenue")
        /\ r.summary.m6.total_orders = WindowSum(r.monthly, 6, "total_orders")
        /\ r.summary.m3.total_spend = WindowSum(r.monthly, 3, "ad_spend")
        /\ r.summary.m3.total_revenue = WindowSum(r.monthly, 3, "total_revenue")
        /\ r.summary.m3.total_orders = WindowSum(r.monthly, 3, "total_orders")

\* a 7-month series whose 6_month block holds the spend of 7 months
C14_SixMonthBlockOverAll ==
    \E r \in Reports :
        /\ Len(r.monthly) = 7
        /\ r.inputs.monthly_ad_spend > 0
        /\ r.summary.m6.total_spend = 7 * r.inputs.monthly_ad_spend
        /\ r.summary.m6.total_orders = SumField(r.monthly, 7, "total_orders")

\* C15: the monthly series has exactly `months` records with month = 1, 2,
\* ..., months in that order, and the record of month m is what
\* calculate_monthly_projection returns for m and the inputs, whatever the
\* horizon.
C15_IndependentMonths ==
    \A r \in Reports :
        /\ Len(r.monthly) = r.inputs.months
        /\ \A m \in 1..Len(r.monthly) :
              /\ r.monthly[m].month = m
              /\ r.monthly[m] =
                    calculate_monthly_projection(
                        m, r.inputs.monthly_ad_spend, r.inputs.aov,
                        r.inputs.base_cpc, r.inputs.base_conversion_rate)

\* a 7-month series of a valid input, with its tiers and curve at work
C15_Witness ==
    \E r \in Reports :
        /\ Len(r.monthly) = 7
        /\ r.inputs.monthly_ad_spend > 0 /\ r.inputs.aov > 0
        /\ r.monthly[7].month = 7
        /\ r.monthly[7].effective_cr = 2 * r.monthly[1].effective_cr
        /\ r.monthly[7].effective_cpc < r.monthly[1].effective_cpc

\* the conversion_rate_month_1_3 of the loaded benchmark set
benchmark_conversion_rate(benchmarks) ==
    IF benchmarks.industry_averages = None THEN None
    ELSE Val(benchmarks.industry_averages).conversion_rate_month_1_3

RLe(x, y) == ~RLt(y, x)

\* C17: the CPC multiplier is > 0 and never rises from a month to the next,
\* months beyond the 12-entry table included; so for a fixed base CPC the
\* effective CPC of the record never rises from one month to the next.
C17_CpcMultiplierMonotone ==
    LET m == monthly_call.month
    IN  (m >= 1 /\ ValidMonthlyInput(monthly_call.inputs)) =>
          /\ RPos(cpc_multiplier(m))
          /\ RLe(cpc_multiplier(m + 1), cpc_multiplier(m))
          /\ \A r \in monthly_call.record : \A b \in monthly_call.before :
                r.effective_cpc <= b.effective_cpc

\* month 13 of a base CPC of 2.50: the effective CPC went up from month 12
C17_CpcRisesAfterTable ==
    /\ monthly_call.month = 13
    /\ monthly_call.inputs.base_cpc = DEFAULT_avg_cpc
    /\ \E r \in monthly_call.record : \E b \in monthly_call.before :
          b.effective_cpc = 180 /\ r.effective_cpc = 188

\* C18: the organic share is never lower than the month before, lies in
\* [0, 100] percent and never exceeds 35 percent, months beyond the 12-entry
\* table included.
C18_OrganicShareMonotone ==
    LET m == monthly_call.month
    IN  m >= 1 =>
          /\ RLe(RInt(0), organic_pct(m))
          /\ RLe(organic_pct(m), Rat(35, 100))
          /\ RLe(organic_pct(m), organic_pct(m + 1))
          /\ \A r \in monthly_call.record :
                /\ r.organic_pct \in 0..350
                /\ \A b \in monthly_call.before : b.organic_pct <= r.organic_pct

\* past the table: month 13 holds the 35 percent of month 12
C18_Witness ==
    /\ monthly_call.month = 13
    /\ \E r \in monthly_call.record : \E b \in monthly_call.before :
          b.organic_pct = 350 /\ r.organic_pct = 350

\* C19: for every month beyond the table (m > 12) the CPC multiplier is 0.75
\* and the organic share 35 percent, and for fixed inputs the record of such
\* a month equals the record of the month before it in every field but
\* month.
C19_FlatBeyondTable ==
    LET m == monthly_call.month
    IN  m >= 12 =>
          /\ cpc_multiplier(m + 1) = Hundredths(75)
          /\ organic_pct(m + 1) = Rat(35, 100)
          /\ m > 13 =>
                \A r \in monthly_call.record : \A b \in monthly_call.before :
                    r = [b EXCEPT !.month = m]

\* months 13 and 14 of a valid input: same record, month apart
C19_Witness ==
    /\ monthly_call.month = 14
    /\ ValidMonthlyInput(monthly_call.inputs)
    /\ monthly_call.inputs.monthly_ad_spend = 500000
    /\ \E r \in monthly_call.record : \E b \in monthly_call.before :
          /\ b.month = 13 /\ r.month = 14
          /\ r.total_revenue = b.total_revenue /\ r.total_revenue > 0
          /\ r.effective_cpc = b.effective_cpc

(***************************************************************************)
(* Properties of persistence                                               *)
(***************************************************************************)
\* the latest run computed its report and then failed to write one of the
\* three files
PersistenceFailed(o) ==
    /\ o.handler \in RunHandlers \cup {"run_growth_projections"}
    /\ \E inv \in last : inv.report # None
    /\ Cardinality(o.written) < 3

\* C20: when a write fails in save_projections after generate_projections
\* has succeeded, the caller gets the failure as an exception (it is not
\* swallowed into an ordinary result) and still gets the report back.
C20_PersistenceFailureSurfaced ==
    \A o \in outcome :
        PersistenceFailed(o) => o.raised = "OSError" /\ o.returned

\* run_from_config failed on a write: the OSError left the handler and
\* nothing was returned
C20_ReportLostOnWriteFailure ==
    \E o \in outcome :
        /\ PersistenceFailed(o)
        /\ o.handler = "run_from_config"
        /\ o.raised = "OSError"
        /\ ~o.returned

\* run_growth_projections failed on a write: no exception reached its
\* caller, the result is False
C20_WriteFailureSwallowed ==
    \E o \in outcome :
        /\ PersistenceFailed(o)
        /\ o.handler = "run_growth_projections"
        /\ o.raised = "none"
        /\ ~o.returned

(***************************************************************************)
(* Properties of the rounding of the record                                *)
(***************************************************************************)
\* the unrounded quantities behind the latest record
Unrounded ==
    LET i == monthly_call.inputs
    IN  monthly_unrounded(monthly_call.month, i.monthly_ad_spend, i.aov,
                          i.base_cpc, i.base_conversion_rate)

\* k counts units of 1/scale and no such count is nearer to the rational x
NearestTo(k, x, scale) ==
    LET s == Rat(scale, x[2])
        q == (x[1] * s[1]) \div s[2]
        rem == (x[1] * s[1]) % s[2]
    IN  \/ k = q /\ 2 * rem <= s[2]
        \/ k = q + 1 /\ 2 * rem >= s[2]

\* spend / total_orders where the order count is positive, else 0
UnroundedCac(u) ==
    IF RPos(u.total_orders) THEN RDiv(u.monthly_ad_spend, u.total_orders)
    ELSE RInt(0)

\* C21: in every monthly record the currency fields and the rate fields
\* (effective_cr, organic_pct in percent, roas) are the unrounded values
\* rounded to 2 decimals, the traffic fields the unrounded values rounded to
\* the nearest integer, the order fields the unrounded values rounded to 1
\* decimal.  (The record keeps organic_pct in tenths of a percent: ten times
\* it is the share in hundredths of a percent.)
C21_RoundingPolicy ==
    \A r \in monthly_call.record : \E u \in {Unrounded} :
        /\ NearestTo(r.ad_spend, u.monthly_ad_spend, 100)
        /\ NearestTo(r.effective_cpc, u.effective_cpc, 100)
        /\ NearestTo(r.paid_revenue, u.paid_revenue, 100)
        /\ NearestTo(r.organic_revenue, u.organic_revenue, 100)
        /\ NearestTo(r.total_revenue, u.total_revenue, 100)
        /\ NearestTo(r.cac, UnroundedCac(u), 100)
        /\ NearestTo(r.effective_cr, u.effective_cr, 100)
        /\ NearestTo(10 * r.organic_pct, RMul(u.organic_pct, RInt(100)), 100)
        /\ NearestTo(r.roas, u.roas, 100)
        /\ NearestTo(r.paid_traffic, u.paid_clicks, 1)
        /\ NearestTo(r.organic_traffic, u.organic_traffic, 1)
        /\ NearestTo(r.total_traffic, u.total_traffic, 1)
        /\ NearestTo(r.paid_orders, u.paid_orders, 10)
        /\ NearestTo(r.organic_orders, u.organic_orders, 10)
        /\ NearestTo(r.total_orders, u.total_orders, 10)

\* a record of a valid input in which revenue, traffic, orders and cac all
\* had digits to round away, upwards for the revenue
C21_Witness ==
    /\ ValidMonthlyInput(monthly_call.inputs)
    /\ \E r \in monthly_call.record : \E u \in {Unrounded} :
          /\ RLt(u.total_revenue, Cents(r.total_revenue))
          /\ u.total_traffic # RInt(r.total_traffic)
          /\ u.total_orders # Rat(r.total_orders, 10)
          /\ UnroundedCac(u) # Cents(r.cac)
          /\ r.cac > 0

(***************************************************************************)
(* Properties of the inputs a report carries                               *)
(***************************************************************************)
\* the Projection Input constraints on the inputs block of a report
ValidProjectionInput(inputs) ==
    /\ inputs.monthly_ad_spend >= 0
    /\ inputs.aov > 0
    /\ inputs.base_cpc > 0
    /\ inputs.base_conversion_rate > 0 /\ inputs.base_conversion_rate <= 10000
    /\ inputs.months >= 1

\* C22: every report generate_projections returns has inputs that satisfy
\* the Projection Input constraints, and a base CPC of 0 (cpc override or
\* measured avg_cpc) never reaches the division ad_spend / effective_cpc:
\* no invocation ends in ZeroDivisionError.
C22_ReportInputsValid ==
    \A inv \in last :
        /\ inv.raised # "ZeroDivisionError"
        /\ \A r \in inv.report : ValidProjectionInput(r.inputs)

\* otherwise valid arguments without cpc override, on a benchmark set whose
\* measured avg_cpc is 0: the division was reached and raised
C22_ZeroCpcReachesDivision ==
    \E inv \in last :
        /\ ValidInput(inv.args)
        /\ inv.args.cpc = None
        /\ benchmark_avg_cpc(inv.benchmarks) = Some(0)
        /\ base_cpc(inv.benchmarks, inv.args.cpc) = 0
        /\ inv.raised = "ZeroDivisionError"
        /\ inv.report = None

\* a cpc override of 0 with otherwise valid arguments did the same
C22_ZeroOverrideReachesDivision ==
    \E inv \in last :
        /\ ValidInput(inv.args)
        /\ inv.args.cpc = Some(0)
        /\ inv.raised = "ZeroDivisionError"

(***************************************************************************)
(* Properties of calls that share a projector                              *)
(***************************************************************************)
\* the projector as construction left it
AsConstructed ==
    [constructed |-> TRUE,
     benchmarks |-> load_benchmarks(benchmark_file).benchmarks,
     config |-> Some(ArgsBenchmarked)]

\* what the invocation of a frame returns when nothing else ever ran on the
\* projector
Alone(f) ==
    generate_projections(AsConstructed.benchmarks, Val(f.args), f.generated_at)

\* C23: generate_projections (and the calculate_monthly_projection calls it
\* makes) leaves the projector's loaded benchmarks and loaded config as
\* construction left them, and what a call raises or returns (inputs,
\* monthly series, summary) is what the same call gives on a fresh
\* projector, whatever was called before it.
C23_NoHiddenState ==
    /\ projector = AsConstructed
    /\ \A c \in Callers :
          frames[c].pc = "done" =>
              \E alone \in {Alone(frames[c])} :
                  /\ frames[c].raised = alone.raised
                  /\ frames[c].report = alone.report

\* a call on benchmark defaults has returned after a call with a cpc
\* override of 2.00 ran on the same projector
C23_Witness ==
    /\ benchmark_file = FileAbsent
    /\ frames[1].pc = "done"
    /\ frames[1].args = Some(Args(100, 6500, Some(200), Some(175), 3))
    /\ frames[2].pc = "done"
    /\ frames[2].args = Some(Args(500000, 6500, None, None, 2))
    /\ \E r \in frames[2].report :
          r.inputs.base_cpc = DEFAULT_avg_cpc /\ Len(r.monthly) = 2

\* the number of records the invocation of a frame has appended so far
Appended(f) == f.month - 1

\* C24: in any interleaving of two invocations on the same projector, the
\* monthly list of each invocation holds, at every moment, exactly the
\* records it has itself appended (a prefix of the series it gives when run
\* alone, never a record of the other), and each invocation returns the
\* monthly series and summary it returns when run alone.
C24_InterleavingIsolated ==
    \A c \in Callers :
        LET f == frames[c]
        IN  f.pc \in {"looping", "done"} =>
              /\ Len(f.monthly) = Appended(f)
              /\ \A m \in 1..Len(f.monthly) :
                    f.monthly[m] =
                        calculate_monthly_projection(
                            m, Val(f.args).monthly_ad_spend, Val(f.args).aov,
                            f.cpc, f.conversion_rate)
              /\ \A r \in f.report : \E alone \in Alone(f).report :
                    r.monthly = alone.monthly /\ r.summary = alone.summary

\* both invocations are inside their loops on different inputs, each with
\* records appended
C24_Witness ==
    /\ frames[1].pc = "looping" /\ frames[2].pc = "looping"
    /\ frames[1].args # frames[2].args
    /\ Len(frames[1].monthly) = 1
    /\ Len(frames[2].monthly) = 2

(***************************************************************************)
(* Properties of master.main                                               *)
(***************************************************************************)
\* the pipelines recorded so far, in the order they were run
Ran == [k \in 1..Len(master.results) |-> master.results[k].pipeline]

\* every pipeline recorded so far reported success
AllSucceeded == \A k \in 1..Len(master.results) : master.results[k].success

\* C25: run_all attempts the six pipelines once each in the order SEMrush
\* export, traffic analysis, paid media benchmarks, reviews scraper,
\* sentiment analysis, growth projections: at every moment the pipelines
\* run followed by those still to run are these six, whatever the earlier
\* ones came to; and run_all returns True iff every pipeline reported
\* success.
C25_RunAllContained ==
    master.mode = "run_all" =>
        /\ Ran \o master.pending = AllPipelines
        /\ master.pc = "done" =>
              /\ Ran = AllPipelines
              /\ master.returned = Some(AllSucceeded)

\* run_all is over: the first pipeline raised, a later one failed, the
\* projections ran all the same and succeeded, and the result is False
C25_Witness ==
    /\ master.mode = "run_all"
    /\ master.pc = "done"
    /\ master.results[1].end = "raised"
    /\ master.results[3].end = "failed"
    /\ master.results[6].pipeline = "projections"
    /\ master.results[6].success
    /\ master.returned = Some(FALSE)

\* the benchmark files the paid media step of this run can have saved
SavedThisRun == {save_benchmarks(m) : m \in MeasuredAverages}

C26_ProjectionsAfterFailure ==
    /\ master.mode = "run_new_business_analysis"
    /\ master.pc = "done"
    /\ master.results[1].end = "raised"
    /\ benchmark_file = FileAbsent
    /\ master.results[4].success
    /\ \E inv \in last : \E r \in inv.report :
          r.inputs.base_cpc = DEFAULT_avg_cpc
    /\ master.returned = Some(FALSE)

\* the mode flags in the documented priority, --config apart
PriorityOrder ==
    <<"business_age_new", "new_business", "business_age_established",
      "semrush", "traffic", "paid", "reviews", "sentiment", "projections",
      "projections_interactive", "all">>

\* the mode a flag asks for
ModeOfFlag(flag) ==
    CASE flag \in {"business_age_new", "new_business"} ->
            "run_new_business_analysis"
      [] flag = "business_age_established" -> "run_established_business_analysis"
      [] flag = "semrush" -> "run_semrush_export"
      [] flag = "traffic" -> "run_traffic_analysis"
      [] flag = "paid" -> "run_paid_media_benchmarks"
      [] flag = "reviews" -> "run_reviews_scraper"
      [] flag = "sentiment" -> "run_sentiment_analysis"
      [] flag = "projections" -> "run_growth_projections"
      [] flag = "projections_interactive" -> "run_growth_projections_interactive"
      [] flag = "all" -> "run_all"

\* the requested flag that comes first in the priority
FirstRequested(flags) ==
    PriorityOrder[CHOOSE i \in DOMAIN PriorityOrder :
                     /\ PriorityOrder[i] \in flags
                     /\ \A j \in 1..(i - 1) : PriorityOrder[j] \notin flags]

\* C30: once main() has chosen, with --config the configuration is shown
\* and no pipeline runs; otherwise the one mode run is that of the requested
\* flag that comes first in the priority business-age new / --new-business,
\* business-age established, --semrush, --traffic, --paid, --reviews,
\* --sentiment, --projections, --projections-interactive, --all, and the
\* pipelines run are those of this mode and no other; with no mode flag no
\* pipeline runs.
C30_OneModeByPriority ==
    master.mode # "none" =>
        /\ Ran \o master.pending = pipelines_of(master.mode)
        /\ "config" \in master.flags =>
              master.mode = "show_config" /\ master.results = <<>>
        /\ master.flags = {} =>
              master.mode = "print_help" /\ master.results = <<>>
        /\ (master.flags # {} /\ "config" \notin master.flags) =>
              master.mode = ModeOfFlag(FirstRequested(master.flags))

\* --all together with --semrush: the SEMrush export alone has run
C30_Witness ==
    /\ master.flags = {"all", "semrush"}
    /\ master.pc = "done"
    /\ master.mode = "run_semrush_export"
    /\ Ran = <<"semrush">>

(***************************************************************************)
(* Properties of the command line values                                   *)
(***************************************************************************)
\* C27: when --spend and --aov are both given (spend >= 0, aov > 0), the
\* run projects those command line values and not the config file's
\* projections section, spend = 0 included.
C27_CliValuesProjected ==
    \A o \in outcome :
        (/\ request.mode = "cli"
         /\ request.args.monthly_ad_spend >= 0
         /\ request.args.aov > 0
         /\ o.handler # "__init__") =>
            /\ o.handler # "run_from_config"
            /\ \A inv \in last : inv.args = request.args

\* --spend 0 --aov 65 under master's --projections: the config file's
\* section (spend 5000, 6 months) was projected and saved
C27_ZeroSpendFromConfig ==
    \E o \in outcome : \E inv \in last : \E r \in inv.report :
        /\ request.mode = "cli"
        /\ request.args = ArgsZeroSpend
        /\ o.handler = "run_growth_projections"
        /\ inv.args = Val(request.config)
        /\ r.inputs.monthly_ad_spend = 500000
        /\ r.inputs.months = 6
        /\ o.returned

\* the same under main() of growth_projector.py: run_from_config took over
C27_ZeroSpendRunFromConfig ==
    \E o \in outcome : \E inv \in last :
        /\ request.mode = "cli"
        /\ request.args = ArgsZeroSpend
        /\ o.handler = "run_from_config"
        /\ inv.args = Val(request.config)

C28_LaterSecondKept ==
    \E l \in last :
        /\ Cardinality(l.saved) = 3 /\ l.replaced = {}
        /\ \A f \in l.saved : f.stamp = 1
        /\ Cardinality({f \in artifacts : f.stamp = 0}) = 3
        /\ l.saved \subseteq artifacts

(***************************************************************************)
(* Properties of the growth of the series                                  *)
(***************************************************************************)
\* C29: for valid inputs with ad_spend > 0, from each month to the next the
\* record's total_revenue and roas do not decrease and its cac does not
\* increase.
C29_RevenueNeverFalls ==
    (ValidMonthlyInput(monthly_call.inputs)
        /\ monthly_call.inputs.monthly_ad_spend > 0) =>
        \A r \in monthly_call.record : \A b \in monthly_call.before :
            /\ r.total_revenue >= b.total_revenue
            /\ r.roas >= b.roas
            /\ r.cac <= b.cac

\* month 13 of the end-to-end inputs: the CPC went up from month 12, so
\* revenue and roas fell and cac rose
C29_FallsAfterTable ==
    /\ monthly_call.inputs = EndToEndInputs
    /\ monthly_call.month = 13
    /\ \E r \in monthly_call.record : \E b \in monthly_call.before :
          /\ b.month = 12
          /\ r.effective_cpc > b.effective_cpc
          /\ r.total_revenue < b.total_revenue
          /\ r.roas < b.roas
          /\ r.cac > b.cac

====
